---- MODULE Spec2Model ----
(***************************************************************************)
(* A model of the Obsidian plugin AutoTagWords (src/src/main.ts).          *)
(*                                                                         *)
(* A text is a sequence of one-character strings.  The alphabet keeps one  *)
(* representative of every class of character the plugin's pattern         *)
(*     new RegExp(`(?<!#)\\b${escapedWord}\\b`, 'gi')                      *)
(* tells apart: a lower-case and an upper-case word character, the tag     *)
(* sentinel, a non-word character that may occur inside a tag, and a       *)
(* regular-expression syntax character.                                    *)
(***************************************************************************)
EXTENDS Integers, Sequences, FiniteSets, TLC

\* ------------------------------------------------------------------ bounds
\* Longest text body drawn as the input of a rewrite pass.
MaxLen == 5

\* Most tags in a registry drawn as the input of a rewrite pass.
MaxTags == 2

\* Most processFile invocations scheduled by a timer or suspended at an await
\* at once.
MaxPending == 2

\* The time that passes in one step of the clock, in milliseconds.
Tick == 400

\* The editor-change events of one burst are counted up to this many.
MaxBurst == 3

\* Most writes of the plugin in a row, each one answering the event the one
\* before raised.
MaxHops == 3

\* --------------------------------------------------------------- constants
\* setTimeout(() => this.convertWordsToTags(editor), 800)
QuietDelay == 800

\* setTimeout(() => this.processFile(file), 1000)
SettleDelay == 1000

\* --------------------------------------------------------------- characters
Alphabet == {"c", "C", "#", "-", "+"}

\* \w of a RegExp without the u flag is [A-Za-z0-9_]; "c" and "C" stand for it.
WordChars == {"c", "C"}

IsWordChar(ch) == ch \in WordChars

\* String.prototype.toLowerCase, character by character.
ToLowerCase(string) ==
    [i \in 1..Len(string) |-> IF string[i] = "C" THEN "c" ELSE string[i]]

\* The i flag compares characters after Canonicalize (toUpperCase).
Canonicalize(ch) == IF ch = "c" THEN "C" ELSE ch

\* tag.slice(1): the string without its first character ("" stays "").
Slice1(string) == SubSeq(string, 2, Len(string))

\* The character class of escapeRegExp: [.*+?^${}()|[\]\\]
SyntaxCharacters ==
    {".", "*", "+", "?", "^", "$", "{", "}", "(", ")", "|", "[", "]", "\\"}

\* escapeRegExp mutated: the word is used as the pattern unescaped.
EscapeRegExpOmitted(string) == string

\* escapeRegExp: string.replace(/[.*+?^${}()|[\]\\]/g, '\\$&').
RECURSIVE EscapeRegExp(_)
EscapeRegExp(string) ==
    IF string = <<>> THEN <<>>
    ELSE (IF Head(string) \in SyntaxCharacters
             THEN <<"\\", Head(string)>>
             ELSE <<Head(string)>>) \o EscapeRegExp(Tail(string))

\* ------------------------------------------------------------------ RegExp
\* The terms of the pattern between the two \b: a backslash makes the next
\* character a literal, a bare "+" repeats the term before it and is a
\* SyntaxError ("nothing to repeat") after the assertion \b or after another
\* quantifier.  Of the syntax characters only "+" is in the alphabet.
SyntaxError == [error |-> TRUE, terms |-> <<>>]

RECURSIVE ParseTerms(_, _)
ParseTerms(source, terms) ==
    IF source = <<>> THEN [error |-> FALSE, terms |-> terms]
    ELSE IF Head(source) = "\\"
        THEN IF Len(source) < 2 THEN SyntaxError
             ELSE ParseTerms(Tail(Tail(source)),
                             Append(terms, [ch |-> source[2], plus |-> FALSE]))
    ELSE IF Head(source) = "+"
        THEN IF terms = <<>> \/ terms[Len(terms)].plus THEN SyntaxError
             ELSE ParseTerms(Tail(source),
                             [terms EXCEPT ![Len(terms)].plus = TRUE])
    ELSE ParseTerms(Tail(source),
                    Append(terms, [ch |-> Head(source), plus |-> FALSE]))

\* new RegExp(`(?<!#)\\b${escapedWord}\\b`, 'gi'): [error, terms], error
\* when the constructor throws a SyntaxError.
NewRegExp(escapedWord) == ParseTerms(escapedWord, <<>>)

\* \b mutated: every position is a boundary.
IsBoundaryOmitted(text, i) == TRUE

\* \b at position i (between text[i-1] and text[i]); outside the text there
\* is no word character.
IsBoundary(text, i) ==
    LET before == i > 1 /\ IsWordChar(text[i - 1])
        after  == i <= Len(text) /\ IsWordChar(text[i])
    IN  before # after

\* (?<!#) at position i.
NotAfterSentinel(text, i) == i = 1 \/ text[i - 1] # "#"

\* Match terms[k..] and the closing \b from position i: the position after
\* the match, or 0.  A repeated term is greedy and backtracks.
RECURSIVE MatchTerms(_, _, _, _)
MatchTerms(text, terms, k, i) ==
    IF k > Len(terms) THEN (IF IsBoundary(text, i) THEN i ELSE 0)
    ELSE IF i > Len(text) \/ Canonicalize(text[i]) # Canonicalize(terms[k].ch)
        THEN 0
    ELSE IF terms[k].plus
        THEN LET more == MatchTerms(text, terms, k, i + 1)
             IN  IF more # 0 THEN more ELSE MatchTerms(text, terms, k + 1, i + 1)
    ELSE MatchTerms(text, terms, k + 1, i + 1)

\* One attempt of the whole pattern at position i: the position after the
\* match, or 0.
ExecAt(text, terms, i) ==
    IF NotAfterSentinel(text, i) /\ IsBoundary(text, i)
        THEN MatchTerms(text, terms, 1, i)
        ELSE 0

\* The matches a global RegExp finds from lastIndex = i on, left to right and
\* not overlapping; after an empty match lastIndex advances by one.
RECURSIVE ExecAll(_, _, _)
ExecAll(text, terms, i) ==
    IF i > Len(text) + 1 THEN <<>>
    ELSE LET e == ExecAt(text, terms, i)
         IN  IF e = 0 THEN ExecAll(text, terms, i + 1)
             ELSE <<[index |-> i, end |-> e]>>
                  \o ExecAll(text, terms, IF e = i THEN i + 1 ELSE e)

\* The result string of replace: the text between the matches, each match
\* replaced.  (The replacement holds no "$", so it is taken literally.)
RECURSIVE Substitute(_, _, _, _)
Substitute(text, results, replacement, position) ==
    IF results = <<>> THEN SubSeq(text, position, Len(text))
    ELSE SubSeq(text, position, Head(results).index - 1)
         \o replacement
         \o Substitute(text, Tail(results), replacement, Head(results).end)

\* text.replace(regex, replacement) with a global regex.
Replace(text, terms, replacement) ==
    Substitute(text, ExecAll(text, terms, 1), replacement, 1)

\* ------------------------------------------------------- the rewrite pass
\* The loop variables of processFile mutated: changed starts true.
StartOfFilePassChanged(content) ==
    [newContent |-> content, changed |-> TRUE, threw |-> FALSE,
     trace |-> <<content>>]

\* The loop variables of processFile, before the first tag.
StartOfFilePass(content) ==
    [newContent |-> content, changed |-> FALSE, threw |-> FALSE,
     trace |-> <<content>>]

\* One iteration of the loop of processFile: the working copy is replaced
\* when the replace changed it.  trace records the working copy after every
\* iteration; threw, that new RegExp threw (the loop is left for the catch).
FileStep(acc, tag) ==
    LET word        == ToLowerCase(Slice1(tag))
        escapedWord == EscapeRegExp(word)
        regex       == NewRegExp(escapedWord)
    IN  IF acc.threw \/ regex.error THEN [acc EXCEPT !.threw = TRUE]
        ELSE LET updatedContent ==
                     Replace(acc.newContent, regex.terms, <<"#">> \o word)
             IN  IF updatedContent # acc.newContent
                    THEN [newContent |-> updatedContent, changed |-> TRUE,
                          threw |-> FALSE,
                          trace |-> Append(acc.trace, updatedContent)]
                    ELSE [acc EXCEPT !.trace = Append(@, acc.newContent)]

\* The loop of processFile mutated: the registry is emptied after the first
\* iteration, as by a refresh in the middle of the loop.
FileLoopInterrupted(acc, tags) ==
    IF tags = <<>> THEN acc ELSE FileStep(acc, Head(tags))

\* for (const tag of this.tags) { ... } of processFile.
RECURSIVE FileLoop(_, _)
FileLoop(acc, tags) ==
    IF tags = <<>> THEN acc
    ELSE FileLoop(FileStep(acc, Head(tags)), Tail(tags))

\* The rewrite pass of processFile over a document's content.
RewriteStored(content, tags) == FileLoop(StartOfFilePass(content), tags)

\* The loop variables of convertWordsToTags: text is what getValue returned
\* and is never reassigned, value is the buffer, setValues the values passed
\* to editor.setValue in order.
StartOfLivePass(text) ==
    [text |-> text, value |-> text, changed |-> FALSE, threw |-> FALSE,
     setValues |-> <<>>]

\* One iteration of the loop of convertWordsToTags.
EditorStep(acc, tag) ==
    LET word        == ToLowerCase(Slice1(tag))
        escapedWord == EscapeRegExp(word)
        regex       == NewRegExp(escapedWord)
    IN  IF acc.threw \/ regex.error THEN [acc EXCEPT !.threw = TRUE]
        ELSE LET newText == Replace(acc.text, regex.terms, <<"#">> \o word)
             IN  IF newText # acc.text
                    THEN [acc EXCEPT !.value = newText, !.changed = TRUE,
                                     !.setValues = Append(@, newText)]
                    ELSE acc

\* for (const tag of this.tags) { ... } of convertWordsToTags.
RECURSIVE EditorLoop(_, _)
EditorLoop(acc, tags) ==
    IF tags = <<>> THEN acc
    ELSE EditorLoop(EditorStep(acc, Head(tags)), Tail(tags))

\* The rewrite pass of convertWordsToTags over a buffer's text.
RewriteLive(text, tags) == EditorLoop(StartOfLivePass(text), tags)

\* ------------------------------------------------------------ updateTags
\* One iteration of the inner loop of updateTags: push unless included.
PushTag(tags, tag) ==
    IF \E i \in 1..Len(tags) : tags[i] = tag THEN tags ELSE Append(tags, tag)

\* for (const tag of cache.tags) { ... }
RECURSIVE PushTags(_, _)
PushTags(tags, fileTags) ==
    IF fileTags = <<>> THEN tags
    ELSE PushTags(PushTag(tags, Head(fileTags)), Tail(fileTags))

\* for (const file of files) { ... } over getMarkdownFiles().
RECURSIVE CollectTags(_, _, _)
CollectTags(tags, files, fileCache) ==
    IF files = <<>> THEN tags
    ELSE CollectTags(PushTags(tags, fileCache[Head(files)]), Tail(files),
                     fileCache)

\* updateTags mutated: the registry is not reset before the loop.
UpdateTagsKeeping(oldTags, files, fileCache) ==
    CollectTags(oldTags, files, fileCache)

\* this.tags = []; ...: the registry is rebuilt from the cache of every
\* markdown file; what it held before is dropped.
UpdateTags(oldTags, files, fileCache) == CollectTags(<<>>, files, fileCache)

\* ------------------------------------------------------------- the system
\* The documents of the vault and the open editors.
Files == {"A", "B", "C"}

Editors == {"E1", "E2"}

\* The files of the vault that are no markdown files: X is an .mdx file and
\* T a .txt file.
OtherFiles == {"X", "T"}

\* file.extension
Extension(file) ==
    IF file = "X" THEN <<"m", "d", "x">>
    ELSE IF file = "T" THEN <<"t", "x", "t">>
    ELSE <<"m", "d">>

\* vault.getMarkdownFiles(): the documents whose extension is md.
MarkdownFiles == <<"A", "B", "C">>

\* String.prototype.includes.
Includes(string, part) ==
    \E i \in 1..(Len(string) - Len(part) + 1) :
        SubSeq(string, i, i + Len(part) - 1) = part

\* The tags and the texts the documents, the cache and the editors hold.
TagC == <<"#", "c">>

TagWord == <<"#", "c", "C">>

TagHyphen == <<"#", "c", "-", "c">>

DocTexts == {<<>>, <<"c">>, <<"c", "-", "c">>}

\* cache.tags of a document: every tag it holds, in the order it holds them.
CacheLists ==
    LET all == {TagC, TagWord, TagHyphen}
    IN  {<<>>} \cup {<<t>> : t \in all} \cup {<<t, u>> : t, u \in all}

VARIABLES
    tags,       \* this.tags
    timeout,    \* this.timeout: the handle of a timer, 0 for null
    timers,     \* the host's pending timers, oldest first
    cache,      \* metadataCache: the tags extracted from every document
    content,    \* the vault: the text of every document
    buffer,     \* the text of every editor
    calls,      \* the processFile invocations suspended at an await
    elapsed,    \* time since the last editor-change event, up to QuietDelay
    since,      \* the last editor-change event and the passes run after it
    scanned,    \* the outcomes of the last processAllFiles that ended
    did,        \* what the last step did: a rewrite pass and its effect
    gone,       \* the deleted documents and the closed editors
    unparsed,   \* the documents written whose tags are not extracted yet
    body,       \* the text a rewrite pass is applied to
    stage,      \* how far the passes over body have been applied
    stored,     \* processFile's loop over body
    again,      \* processFile's loop over what stored produced
    live        \* convertWordsToTags' loop over body

sysVars == <<timeout, timers, cache, content, buffer, calls, elapsed, since,
             scanned, did, gone, unparsed>>

passVars == <<body, stage, stored, again, live>>

vars == <<tags, sysVars, passVars>>

\* ------------------------------------------------------------------ timers
Remove(seq, i) == SubSeq(seq, 1, i - 1) \o SubSeq(seq, i + 1, Len(seq))

Pending(kind) == {i \in 1..Len(timers) : timers[i].kind = kind}

NoneDue == \A i \in 1..Len(timers) : timers[i].remaining > 0

\* The handle setTimeout returns: the least one that no pending timer has
\* and that this.timeout does not hold (the host never hands out a handle
\* twice).  The modify handler drops the handle of its timer: that timer is
\* kept under handle 0, which this.timeout never holds.
FreshHandle(pending, held) ==
    CHOOSE n \in 1..(Len(pending) + 2) :
        /\ n # held
        /\ \A i \in 1..Len(pending) : pending[i].id # n
        /\ \A m \in 1..(n - 1) :
               m = held \/ \E i \in 1..Len(pending) : pending[i].id = m

\* setTimeout(callback, delay): the timers with the new one, last.  waited
\* is the time the timer has been pending; hops, how many writes of the
\* plugin led to the event that set it (0 for an event from outside).
SetTimeout(pending, held, kind, target, delay, hops) ==
    Append(pending, [id |-> IF kind = "file" THEN 0
                                             ELSE FreshHandle(pending, held),
                     kind |-> kind, target |-> target, remaining |-> delay,
                     waited |-> 0, hops |-> hops])

\* clearTimeout(handle) mutated: the pending timer is left to fire.
ClearTimeoutOmitted(pending, handle) == pending

\* clearTimeout(handle): a handle that is not pending clears nothing.
ClearTimeout(pending, handle) ==
    SelectSeq(pending, LAMBDA t : t.id # handle)

\* One more write in a row; past MaxHops the writes are no longer counted.
Hop(hops) == IF hops > MaxHops THEN hops ELSE hops + 1

\* The handler of vault 'modify' mutated: it clears the timer of an earlier
\* event on the same document.
ModifyHandlerDebounced(pending, held, file, hops) ==
    SetTimeout(SelectSeq(pending,
                         LAMBDA t : ~(t.kind = "file" /\ t.target = file)),
               held, "file", file, SettleDelay, hops)

\* The handler of vault 'modify': setTimeout(() => this.processFile(file),
\* 1000); the handle is dropped.
ModifyHandler(pending, held, file, hops) ==
    SetTimeout(pending, held, "file", file, SettleDelay, hops)

\* The handler of workspace 'editor-change': the timer this.timeout holds is
\* cleared and a new one is set and held.
EditorChangeHandler(pending, held, editor, hops) ==
    LET cleared == IF held # 0 THEN ClearTimeout(pending, held) ELSE pending
        after   == SetTimeout(cleared, held, "editor", editor, QuietDelay,
                              hops)
    IN  [timers |-> after, timeout |-> after[Len(after)].id]

\* The handler of 'editor-change' run n times in a row: editor.setValue
\* raises the event, once for every call.
RECURSIVE EditorChanges(_, _, _, _)
EditorChanges(state, editor, hops, n) ==
    IF n = 0 THEN state
    ELSE EditorChanges(EditorChangeHandler(state.timers, state.timeout,
                                           editor, hops),
                       editor, hops, n - 1)

NoEvent == [editor |-> "none", text |-> <<>>, events |-> 0, passes |-> 0]

\* did when the step ran no pass.  event and quiet are the last
\* editor-change event and the time since it, as a pass found them.
NoPass == [op |-> "none", target |-> "none", input |-> <<>>, output |-> <<>>,
           changed |-> FALSE, effect |-> "none", event |-> NoEvent,
           quiet |-> 0]

\* --------------------------------------------------------------- processFile
\* The catch of processFile mutated: the failure leaves processFile.
RethrowsFailure == FALSE

\* try { ... } catch (error) { console.error(...) }: a failure of the read,
\* of the write or of new RegExp ends processFile normally.
CatchesFailure == TRUE

\* processFile up to its first await, called for the documents of a scan
\* from position n on with the outcomes so far: the document the scan is
\* suspended on (a document whose extension does not include md returns at
\* once and the scan goes on), or position 0 when the scan has ended.
RECURSIVE ScanFrom(_, _)
ScanFrom(n, log) ==
    IF n > Len(MarkdownFiles)
        THEN [file |-> "none", at |-> "end", content |-> <<>>,
              newContent |-> <<>>, scan |-> 0, log |-> log, hops |-> 0]
    ELSE IF ~Includes(Extension(MarkdownFiles[n]), <<"m", "d">>)
        THEN ScanFrom(n + 1, Append(log, [file |-> MarkdownFiles[n],
                                          outcome |-> "skipped",
                                          content |-> <<>>]))
    ELSE [file |-> MarkdownFiles[n], at |-> "read", content |-> <<>>,
          newContent |-> <<>>, scan |-> n, log |-> log, hops |-> 0]

\* The loop of processAllFiles mutated: processFile is called and not
\* awaited.
ProcessFileNotAwaited == FALSE

\* for (const file of files) { await this.processFile(file); }
AwaitsProcessFile == TRUE

\* The processFile invocations a processAllFiles leaves suspended when it
\* returns to the host: the one it awaits.
StartScan ==
    IF AwaitsProcessFile THEN <<ScanFrom(1, <<>>)>>
    ELSE [n \in 1..Len(MarkdownFiles) |->
             [file |-> MarkdownFiles[n], at |-> "read", content |-> <<>>,
              newContent |-> <<>>, scan |-> n, log |-> <<>>, hops |-> 0]]

\* processFile number i ends with an outcome, having read text.  One called
\* by a timer is gone; one awaited by processAllFiles resumes the scan with
\* the next document, unless the failure left processFile: then the scan is
\* rejected.
Finish(i, text, outcome) ==
    LET call == calls[i]
        log  == Append(call.log, [file |-> call.file, outcome |-> outcome,
                                  content |-> text])
        next == ScanFrom(call.scan + 1, log)
    IN  IF \/ call.scan = 0
           \/ ~AwaitsProcessFile
           \/ (outcome = "failed" /\ ~CatchesFailure)
            THEN /\ calls' = Remove(calls, i)
                 /\ UNCHANGED scanned
        ELSE IF next.at = "end"
            THEN /\ calls' = Remove(calls, i)
                 /\ scanned' = next.log
        ELSE /\ calls' = [calls EXCEPT ![i] = next]
             /\ UNCHANGED scanned

\* ------------------------------------------------------------------ actions
\* The command 'auto-tag-scan-all': processAllFiles up to its first await.
ScanCommand ==
    /\ NoneDue
    /\ Len(calls) + Cardinality(Pending("file")) < MaxPending
    /\ LET first == ScanFrom(1, <<>>)
       IN  IF AwaitsProcessFile /\ first.at = "end"
              THEN calls' = calls /\ scanned' = first.log
              ELSE calls' = calls \o StartScan /\ UNCHANGED scanned
    /\ did' = NoPass
    /\ UNCHANGED <<tags, timeout, timers, cache, content, buffer, elapsed,
                   since, passVars, gone,
                   unparsed>>

\* metadataCache 'changed': the cache of a document has new tags and the
\* handler calls updateTags.
MetadataChanged(file, fileTags) ==
    /\ NoneDue
    /\ cache' = [cache EXCEPT ![file] = fileTags]
    /\ tags' = UpdateTags(tags, MarkdownFiles, cache')
    /\ unparsed' = unparsed \ {file}
    /\ did' = NoPass
    /\ UNCHANGED <<timeout, timers, content, buffer, calls, elapsed, since,
                   scanned, passVars, gone>>

\* vault 'modify': a document has a new text and the handler schedules
\* processFile after the settle delay.
VaultModify(file, text) ==
    /\ NoneDue
    /\ file \notin gone
    /\ Len(calls) + Cardinality(Pending("file")) < MaxPending
    /\ content' = [content EXCEPT ![file] = text]
    /\ timers' = ModifyHandler(timers, timeout, file, 0)
    /\ did' = NoPass
    /\ UNCHANGED <<tags, timeout, cache, buffer, calls, elapsed, since,
                   scanned, passVars, gone,
                   unparsed>>

\* workspace 'editor-change': an editor has a new text and the handler
\* clears the timer this.timeout holds and schedules convertWordsToTags
\* after the quiet delay.
EditorChange(editor, text) ==
    /\ NoneDue
    /\ editor \notin gone
    /\ buffer' = [buffer EXCEPT ![editor] = text]
    /\ LET after == EditorChangeHandler(timers, timeout, editor, 0)
       IN  /\ timers' = after.timers
           /\ timeout' = after.timeout
    /\ elapsed' = 0
    /\ since' = [editor |-> editor, text |-> text,
                 events |-> IF elapsed >= QuietDelay THEN 1
                            ELSE IF since.events < MaxBurst
                                THEN since.events + 1
                            ELSE MaxBurst,
                 passes |-> 0]
    /\ did' = NoPass
    /\ UNCHANGED <<tags, cache, content, calls, scanned, passVars, gone,
                   unparsed>>

\* Time passes; a timer that is due fires before more time passes.
Clock ==
    /\ NoneDue
    /\ timers' = [i \in 1..Len(timers) |->
                    [timers[i] EXCEPT !.remaining =
                                          IF @ > Tick THEN @ - Tick ELSE 0,
                                      !.waited = @ + Tick]]
    /\ elapsed' = IF elapsed + Tick < QuietDelay THEN elapsed + Tick
                                                 ELSE QuietDelay
    /\ did' = NoPass
    /\ UNCHANGED <<tags, timeout, cache, content, buffer, calls, since,
                   scanned, passVars, gone,
                   unparsed>>

\* The timer of the modify handler fires: processFile up to its first await.
FileTimerFire(i) ==
    /\ timers[i].kind = "file"
    /\ timers[i].remaining = 0
    /\ timers' = Remove(timers, i)
    /\ calls' = IF ~Includes(Extension(timers[i].target), <<"m", "d">>)
                   THEN calls
                   ELSE Append(calls, [file |-> timers[i].target,
                                       at |-> "read", content |-> <<>>,
                                       newContent |-> <<>>, scan |-> 0,
                                       log |-> <<>>,
                                       hops |-> timers[i].hops])
    /\ did' = NoPass
    /\ UNCHANGED <<tags, timeout, cache, content, buffer, elapsed, since,
                   scanned, passVars, gone,
                   unparsed>>

\* vault.read resolves: the loop over this.tags runs, and vault.modify is
\* called when the loop changed the text.
ReadResolves(i) ==
    /\ calls[i].at = "read"
    /\ calls[i].file \notin gone
    /\ LET file == calls[i].file
           pass == RewriteStored(content[file], tags)
       IN  /\ did' = [op |-> "processFile", target |-> file,
                      input |-> content[file], output |-> pass.newContent,
                      changed |-> pass.changed,
                      effect |-> IF pass.changed /\ ~pass.threw
                                    THEN "vault.modify" ELSE "none",
                      event |-> NoEvent, quiet |-> 0]
           /\ IF pass.changed /\ ~pass.threw
                  THEN /\ calls' = [calls EXCEPT
                                       ![i].at = "modify",
                                       ![i].content = content[file],
                                       ![i].newContent = pass.newContent]
                       /\ UNCHANGED scanned
                  ELSE Finish(i, content[file],
                              IF pass.threw THEN "failed" ELSE "unchanged")
    /\ UNCHANGED <<tags, timeout, timers, cache, content, buffer, elapsed,
                   since, passVars, gone,
                   unparsed>>

\* vault.read rejects: the catch logs the error.
ReadRejects(i) ==
    /\ calls[i].at = "read"
    /\ Finish(i, <<>>, "failed")
    /\ did' = NoPass
    /\ UNCHANGED <<tags, timeout, timers, cache, content, buffer, elapsed,
                   since, passVars, gone,
                   unparsed>>

\* vault.modify resolves: the document holds the rewritten text, and the
\* vault has raised 'modify' for it, which the plugin's own handler answers;
\* the metadata cache has yet to extract the tags of the new text.
ModifyResolves(i) ==
    /\ calls[i].at = "modify"
    /\ content' = [content EXCEPT ![calls[i].file] = calls[i].newContent]
    /\ timers' = ModifyHandler(timers, timeout, calls[i].file,
                               Hop(calls[i].hops))
    /\ unparsed' = unparsed \cup {calls[i].file}
    /\ Finish(i, calls[i].content, "written")
    /\ did' = NoPass
    /\ UNCHANGED <<tags, timeout, cache, buffer, elapsed, since, passVars,
                   gone>>

\* vault.modify rejects: the catch logs the error.
ModifyRejects(i) ==
    /\ calls[i].at = "modify"
    /\ Finish(i, calls[i].content, "failed")
    /\ did' = NoPass
    /\ UNCHANGED <<tags, timeout, timers, cache, content, buffer, elapsed,
                   since, passVars, gone,
                   unparsed>>

\* The timer of the editor-change handler fires: convertWordsToTags.  Every
\* editor.setValue raises 'editor-change', which the plugin's own handler
\* answers.
EditorTimerFire(i) ==
    /\ timers[i].kind = "editor"
    /\ timers[i].remaining = 0
    /\ LET editor == timers[i].target
           pass   == RewriteLive(buffer[editor], tags)
           n      == Len(pass.setValues)
           raised == EditorChanges([timers |-> Remove(timers, i),
                                    timeout |-> timeout],
                                   editor, Hop(timers[i].hops), n)
       IN  /\ buffer' = [buffer EXCEPT ![editor] = pass.value]
           /\ did' = [op |-> "convertWordsToTags", target |-> editor,
                      input |-> buffer[editor], output |-> pass.value,
                      changed |-> pass.changed,
                      effect |-> IF n > 0 THEN "editor.setValue" ELSE "none",
                      event |-> since, quiet |-> elapsed]
           /\ timers' = raised.timers
           /\ timeout' = raised.timeout
           /\ elapsed' = IF n > 0 THEN 0 ELSE elapsed
           /\ since' = IF n > 0
                          THEN [editor |-> editor, text |-> pass.value,
                                events |-> IF n < MaxBurst THEN n
                                                           ELSE MaxBurst,
                                passes |-> 0]
                          ELSE [since EXCEPT !.passes = @ + 1]
    /\ UNCHANGED <<tags, cache, content, calls, scanned, passVars, gone,
                   unparsed>>

\* The timer of the editor-change handler fires after its editor was
\* closed, and getValue or setValue throws on it: convertWordsToTags has no
\* try, and the error leaves the timer's callback.  (That the calls work on
\* the closed editor is the other outcome, EditorTimerFire.)
EditorTimerThrows(i) ==
    /\ timers[i].kind = "editor"
    /\ timers[i].remaining = 0
    /\ timers[i].target \in gone
    /\ timers' = Remove(timers, i)
    /\ did' = [NoPass EXCEPT !.op = "convertWordsToTags",
                             !.target = timers[i].target,
                             !.effect = "uncaught error",
                             !.event = since, !.quiet = elapsed]
    /\ since' = [since EXCEPT !.passes = @ + 1]
    /\ UNCHANGED <<tags, timeout, cache, content, buffer, calls, elapsed,
                   scanned, passVars, gone,
                   unparsed>>

\* A document is deleted: its reads reject from now on.
FileDeleted(file) ==
    /\ NoneDue
    /\ file \notin gone
    /\ gone' = gone \cup {file}
    /\ did' = NoPass
    /\ UNCHANGED <<tags, timeout, timers, cache, content, buffer, calls,
                   elapsed, since, scanned, passVars, unparsed>>

\* An editor is closed.
EditorClosed(editor) ==
    /\ NoneDue
    /\ editor \notin gone
    /\ gone' = gone \cup {editor}
    /\ did' = NoPass
    /\ UNCHANGED <<tags, timeout, timers, cache, content, buffer, calls,
                   elapsed, since, scanned, passVars, unparsed>>

\* --------------------------------------------------------- specifications
NoStored == [newContent |-> <<>>, changed |-> FALSE, threw |-> FALSE,
             trace |-> <<>>]

NoLive == [text |-> <<>>, value |-> <<>>, changed |-> FALSE, threw |-> FALSE,
           setValues |-> <<>>]

PassIdle ==
    /\ body = <<>>
    /\ stage = "off"
    /\ stored = NoStored
    /\ again = NoStored
    /\ live = NoLive

\* The state onload leaves: updateTags has built the registry, the first
\* processAllFiles is suspended on its first document, no timer is pending.
Loaded ==
    /\ tags = UpdateTags(<<>>, MarkdownFiles, cache)
    /\ timeout = 0
    /\ timers = <<>>
    /\ calls = StartScan
    /\ elapsed = QuietDelay
    /\ since = NoEvent
    /\ scanned = <<>>
    /\ did = NoPass
    /\ gone = {}
    /\ unparsed = {}

\* The whole plugin, with every event on every document and editor.
Init ==
    /\ cache \in [Files -> CacheLists]
    /\ content \in [Files -> DocTexts]
    /\ buffer \in [Editors -> DocTexts]
    /\ Loaded
    /\ PassIdle

Next ==
    \/ ScanCommand
    \/ \E file \in Files, fileTags \in CacheLists :
           MetadataChanged(file, fileTags)
    \/ \E file \in Files, text \in DocTexts : VaultModify(file, text)
    \/ \E editor \in Editors, text \in DocTexts : EditorChange(editor, text)
    \/ Clock
    \/ \E i \in 1..Len(timers) : FileTimerFire(i)
    \/ \E i \in 1..Len(timers) : EditorTimerFire(i)
    \/ \E i \in 1..Len(timers) : EditorTimerThrows(i)
    \/ \E i \in 1..Len(calls) : ReadResolves(i)
    \/ \E i \in 1..Len(calls) : ReadRejects(i)
    \/ \E i \in 1..Len(calls) : ModifyResolves(i)
    \/ \E i \in 1..Len(calls) : ModifyRejects(i)
    \/ \E file \in Files : FileDeleted(file)
    \/ \E editor \in Editors : EditorClosed(editor)

Spec == Init /\ [][Next]_vars

\* The rewrite passes alone: a text and a registry are drawn, processFile's
\* loop is applied to the text and then to its own result, and
\* convertWordsToTags' loop is applied to the text.
TagPool ==
    {<<"#">>, <<"#", "C">>, <<"#", "c", "-", "c">>, <<"#", "c", "+", "+">>}

Texts == UNION {[1..n -> Alphabet] : n \in 0..MaxLen}

Registries ==
    {r \in UNION {[1..n -> TagPool] : n \in 0..MaxTags} :
        \A i, j \in 1..Len(r) : i # j => r[i] # r[j]}

InitPass ==
    /\ tags \in Registries
    /\ body \in Texts
    /\ stage = "drawn"
    /\ stored = NoStored
    /\ again = NoStored
    /\ live = NoLive
    /\ cache = [file \in Files |-> <<>>]
    /\ content = [file \in Files |-> <<>>]
    /\ buffer = [editor \in Editors |-> <<>>]
    /\ timeout = 0
    /\ timers = <<>>
    /\ calls = <<>>
    /\ elapsed = QuietDelay
    /\ since = NoEvent
    /\ scanned = <<>>
    /\ did = NoPass
    /\ gone = {}
    /\ unparsed = {}

ApplyStored ==
    /\ stage = "drawn"
    /\ stored' = RewriteStored(body, tags)
    /\ stage' = "stored"
    /\ UNCHANGED <<tags, sysVars, body, again, live>>

ApplyAgain ==
    /\ stage = "stored"
    /\ again' = RewriteStored(stored.newContent, tags)
    /\ stage' = "again"
    /\ UNCHANGED <<tags, sysVars, body, stored, live>>

ApplyLive ==
    /\ stage = "again"
    /\ live' = RewriteLive(body, tags)
    /\ stage' = "live"
    /\ UNCHANGED <<tags, sysVars, body, stored, again>>

NextPass == ApplyStored \/ ApplyAgain \/ ApplyLive

SpecPass == InitPass /\ [][NextPass]_vars

\* The metadata events alone, from documents that all hold #c-c and #c.
InitRegistry ==
    /\ cache = [file \in Files |-> <<TagHyphen, TagC>>]
    /\ content = [file \in Files |-> <<"c">>]
    /\ buffer = [editor \in Editors |-> <<"c">>]
    /\ Loaded
    /\ PassIdle

NextRegistry ==
    \E file \in Files, fileTags \in CacheLists :
        MetadataChanged(file, fileTags)

SpecRegistry == InitRegistry /\ [][NextRegistry]_vars

\* The scan onload starts, over every content of the documents, with reads
\* and writes that may fail; the registry holds "#c".
InitScan ==
    /\ cache = [file \in Files |-> IF file = "A" THEN <<TagC>> ELSE <<>>]
    /\ content \in [Files -> DocTexts]
    /\ buffer = [editor \in Editors |-> <<"c">>]
    /\ Loaded
    /\ PassIdle

NextScan ==
    \/ \E i \in 1..Len(calls) : ReadResolves(i)
    \/ \E i \in 1..Len(calls) : ReadRejects(i)
    \/ \E i \in 1..Len(calls) : ModifyResolves(i)
    \/ \E i \in 1..Len(calls) : ModifyRejects(i)

SpecScan == InitScan /\ [][NextScan]_vars

\* The editor-change events and the clock; the registry holds "#c".
InitDebounce ==
    /\ cache = [file \in Files |-> IF file = "A" THEN <<TagC>> ELSE <<>>]
    /\ content = [file \in Files |-> <<"c">>]
    /\ buffer \in [Editors -> DocTexts]
    /\ Loaded
    /\ PassIdle

NextDebounce ==
    \/ \E editor \in Editors, text \in DocTexts : EditorChange(editor, text)
    \/ Clock
    \/ \E i \in 1..Len(timers) : EditorTimerFire(i)

SpecDebounce == InitDebounce /\ [][NextDebounce]_vars

\* The scan onload starts, with modify events from outside on document B,
\* the clock and the timers; the registry holds "#c".
InitInterleave ==
    /\ cache = [file \in Files |-> IF file = "A" THEN <<TagC>> ELSE <<>>]
    /\ content = [file \in Files |->
                     IF file = "A" THEN <<"c">>
                     ELSE IF file = "B" THEN <<"c", "-", "c">>
                     ELSE <<>>]
    /\ buffer = [editor \in Editors |-> <<"c">>]
    /\ Loaded
    /\ PassIdle

NextInterleave ==
    \/ \E file \in {"B"} : VaultModify(file, <<"c">>)
    \/ Clock
    \/ \E i \in 1..Len(timers) : FileTimerFire(i)
    \/ \E i \in 1..Len(calls) : ReadResolves(i)
    \/ \E i \in 1..Len(calls) : ReadRejects(i)
    \/ \E i \in 1..Len(calls) : ModifyResolves(i)
    \/ \E i \in 1..Len(calls) : ModifyRejects(i)

SpecInterleave == InitInterleave /\ [][NextInterleave]_vars

\* Modify events on a markdown file and on the files that are none, the
\* clock and the timers; the registry holds "#c".
InitExtension ==
    /\ cache = [file \in Files |-> IF file = "A" THEN <<TagC>> ELSE <<>>]
    /\ content = [file \in Files \cup OtherFiles |-> <<>>]
    /\ buffer = [editor \in Editors |-> <<"c">>]
    /\ Loaded
    /\ PassIdle

NextExtension ==
    \/ \E file \in {"A"} \cup OtherFiles, text \in DocTexts :
           VaultModify(file, text)
    \/ Clock
    \/ \E i \in 1..Len(timers) : FileTimerFire(i)
    \/ \E i \in 1..Len(calls) : ReadResolves(i)
    \/ \E i \in 1..Len(calls) : ModifyResolves(i)

SpecExtension == InitExtension /\ [][NextExtension]_vars

\* Changes of the metadata while the reads of the scan are suspended and
\* while an editor's timer is pending.
InitRefresh ==
    /\ cache = [file \in Files |-> IF file = "A" THEN <<TagC>> ELSE <<>>]
    /\ content = [file \in Files |->
                     IF file = "A" THEN <<"c", "-", "c">> ELSE <<>>]
    /\ buffer = [editor \in Editors |-> <<"c", "-", "c">>]
    /\ Loaded
    /\ PassIdle

NextRefresh ==
    \/ \E fileTags \in {<<>>, <<TagC>>, <<TagHyphen, TagC>>} :
           MetadataChanged("A", fileTags)
    \/ EditorChange("E1", <<"c", "-", "C">>)
    \/ Clock
    \/ \E i \in 1..Len(timers) : FileTimerFire(i)
    \/ \E i \in 1..Len(timers) : EditorTimerFire(i)
    \/ \E i \in 1..Len(calls) : ReadResolves(i)
    \/ \E i \in 1..Len(calls) : ModifyResolves(i)

SpecRefresh == InitRefresh /\ [][NextRefresh]_vars

\* A document is deleted and an editor closed while their timers are
\* pending; the registry is empty, so that no pass writes.
InitGone ==
    /\ cache = [file \in Files |-> <<>>]
    /\ content = [file \in Files |-> IF file = "B" THEN <<"c">> ELSE <<>>]
    /\ buffer = [editor \in Editors |-> <<"c">>]
    /\ Loaded
    /\ PassIdle

NextGone ==
    \/ VaultModify("B", <<"c">>)
    \/ EditorChange("E1", <<"c">>)
    \/ FileDeleted("B")
    \/ EditorClosed("E1")
    \/ Clock
    \/ \E i \in 1..Len(timers) : FileTimerFire(i)
    \/ \E i \in 1..Len(timers) : EditorTimerFire(i)
    \/ \E i \in 1..Len(timers) : EditorTimerThrows(i)
    \/ \E i \in 1..Len(calls) : ReadResolves(i)
    \/ \E i \in 1..Len(calls) : ReadRejects(i)

SpecGone == InitGone /\ [][NextGone]_vars

\* The texts of the quiescence scenario and the cache.tags the metadata
\* cache may hold for a document; updateTags takes every entry as it is.
QuiesceTexts == {<<"c">>, <<"c", "-", "c", "-", "c">>}

QuiesceLists == {<<>>, <<TagHyphen>>, <<TagHyphen, TagC>>, <<<<"#">>>>}

\* The plugin after its last event from outside: the scan onload has ended,
\* document A was modified twice and editor E1 once, and the timers of the
\* three events are pending.  From here on the only events are those the
\* plugin's own writes raise; a chain of more than MaxHops writes in a row
\* is followed no further.
InitQuiesce ==
    /\ cache \in {[file \in Files |-> IF file = "A" THEN list ELSE <<>>] :
                      list \in QuiesceLists \ {<<>>}}
    /\ content \in {[file \in Files |-> IF file = "A" THEN text ELSE <<>>] :
                        text \in QuiesceTexts}
    /\ buffer \in {[editor \in Editors |->
                        IF editor = "E1" THEN text ELSE <<>>] :
                       text \in QuiesceTexts}
    /\ tags = UpdateTags(<<>>, MarkdownFiles, cache)
    /\ LET first  == ModifyHandler(<<>>, 0, "A", 0)
           second == ModifyHandler(first, 0, "A", 0)
           third  == EditorChangeHandler(second, 0, "E1", 0)
       IN  /\ timers = third.timers
           /\ timeout = third.timeout
    /\ calls = <<>>
    /\ elapsed = 0
    /\ since = [editor |-> "E1", text |-> buffer["E1"], events |-> 1,
                passes |-> 0]
    /\ scanned = [n \in 1..Len(MarkdownFiles) |->
                     [file |-> MarkdownFiles[n], outcome |-> "unchanged",
                      content |-> <<>>]]
    /\ did = NoPass
    /\ gone = {}
    /\ unparsed = {}
    /\ PassIdle

NextQuiesce ==
    \/ \E file \in unparsed, fileTags \in QuiesceLists :
           MetadataChanged(file, fileTags)
    \/ Clock
    \/ \E i \in 1..Len(timers) :
           timers[i].hops <= MaxHops /\ FileTimerFire(i)
    \/ \E i \in 1..Len(timers) :
           timers[i].hops <= MaxHops /\ EditorTimerFire(i)
    \/ \E i \in 1..Len(calls) : ReadResolves(i)
    \/ \E i \in 1..Len(calls) : ModifyResolves(i)

SpecQuiesce == InitQuiesce /\ [][NextQuiesce]_vars

\* Scans, modify events, editor-change events and timers, with no tag in any
\* document: the registry is empty and stays empty.
InitEmpty ==
    /\ cache = [file \in Files |-> <<>>]
    /\ content = [file \in Files |-> IF file = "A" THEN <<>> ELSE <<"c">>]
    /\ buffer = [editor \in Editors |-> IF editor = "E1" THEN <<>> ELSE <<"c">>]
    /\ Loaded
    /\ PassIdle

NextEmpty ==
    \/ ScanCommand
    \/ \E file \in {"A", "B"} : VaultModify(file, <<"c", "-", "c">>)
    \/ \E editor \in Editors : EditorChange(editor, <<"c", "-", "c">>)
    \/ Clock
    \/ \E i \in 1..Len(timers) : FileTimerFire(i)
    \/ \E i \in 1..Len(timers) : EditorTimerFire(i)
    \/ \E i \in 1..Len(calls) : ReadResolves(i)

SpecEmpty == InitEmpty /\ [][NextEmpty]_vars

\* ------------------------------------------------- claims on the passes
Applied == stage \in {"stored", "again", "live"}

BareWord(tag) == ToLowerCase(Slice1(tag))

WellFormed(tag) == Len(tag) > 1

\* The positions where word stands alone in text: its characters in any
\* letter case, a non-word character other than the sentinel or the start of
\* the text before it, a non-word character or the end of the text after it.
Standalone(text, word) ==
    {i \in 1..(Len(text) - Len(word) + 1) :
        /\ \A k \in 1..Len(word) :
               ToLowerCase(<<text[i + k - 1]>>) = <<word[k]>>
        /\ i = 1 \/ (text[i - 1] \notin WordChars /\ text[i - 1] # "#")
        /\ i + Len(word) > Len(text) \/ text[i + Len(word)] \notin WordChars}

\* text with the occurrences of word that start at the positions at, and
\* only those, replaced by the sentinel and word.
RECURSIVE Tagged(_, _, _, _)
Tagged(text, word, at, i) ==
    IF i > Len(text) THEN <<>>
    ELSE IF i \in at
        THEN <<"#">> \o word \o Tagged(text, word, at, i + Len(word))
    ELSE <<text[i]>> \o Tagged(text, word, at, i + 1)

\* For every position of the result of one replace, the position of text it
\* was copied from, 0 for the characters of a replacement.
RECURSIVE CopiedFrom(_, _, _, _)
CopiedFrom(text, results, width, position) ==
    IF results = <<>> THEN [k \in 1..(Len(text) - position + 1) |->
                              position + k - 1]
    ELSE [k \in 1..(Head(results).index - position) |-> position + k - 1]
         \o [k \in 1..width |-> 0]
         \o CopiedFrom(text, Tail(results), width, Head(results).end)

\* For every position of the working copy after n iterations of processFile's
\* loop over body, the position of body it was copied from, or 0.
RECURSIVE Origin(_)
Origin(n) ==
    IF n = 0 THEN [k \in 1..Len(body) |-> k]
    ELSE LET before == Origin(n - 1)
             word   == BareWord(tags[n])
             step   == CopiedFrom(stored.trace[n],
                                  ExecAll(stored.trace[n],
                                          NewRegExp(EscapeRegExp(word)).terms,
                                          1),
                                  1 + Len(word), 1)
         IN  [k \in 1..Len(step) |->
                 IF step[k] = 0 THEN 0 ELSE before[step[k]]]

\* The characters a tag body is made of: word characters and "-".
TagBodyChars == WordChars \cup {"-"}

\* The tokens of text in tagged form: a sentinel and the longest run of
\* tag-body characters after it, which starts with a word character.
TaggedTokens(text) ==
    {t \in (1..Len(text)) \X (1..Len(text)) :
        /\ t[1] < t[2]
        /\ text[t[1]] = "#"
        /\ text[t[1] + 1] \in WordChars
        /\ \A k \in (t[1] + 1)..t[2] : text[k] \in TagBodyChars
        /\ t[2] = Len(text) \/ text[t[2] + 1] \notin TagBodyChars}

\* C1: applying the rewrite pass of processFile to its own output, with the
\* same tags, returns that output unchanged and changed = false.  Stated for
\* the registries that hold no malformed tag (C7), which the claim includes.
C1_Idempotent ==
    (stage \in {"again", "live"} /\ \A k \in 1..Len(tags) : WellFormed(tags[k]))
        => /\ again.newContent = stored.newContent
           /\ again.changed = FALSE

\* C2: every token of the input that is already in tagged form stands in the
\* output of the pass of processFile byte for byte, with nothing put inside
\* it and no second sentinel put in front of it.  Stated for the registries
\* that hold no malformed tag (C7), which the claim includes.
C2_TaggedTokensKept ==
    (Applied /\ \A k \in 1..Len(tags) : WellFormed(tags[k]))
        => LET out  == stored.newContent
               from == Origin(Len(tags))
           IN  \A t \in TaggedTokens(body) :
                   \E q \in 1..Len(out) :
                       /\ q + (t[2] - t[1]) <= Len(out)
                       /\ \A m \in 0..(t[2] - t[1]) :
                              /\ from[q + m] = t[1] + m
                              /\ out[q + m] = body[t[1] + m]
                       /\ q = 1 \/ from[q - 1] # 0 \/ out[q - 1] # "#"

\* C3: the buffer convertWordsToTags leaves equals the content processFile
\* computes, for the same text and the same tags.  Stated for the registries
\* that hold no malformed tag (C7), which the claim includes.
C3_LiveEqualsStored ==
    (stage = "live" /\ \A k \in 1..Len(tags) : WellFormed(tags[k]))
        => live.value = stored.newContent

\* C7: a pass performs no replacement on behalf of the tag "#", whose bare
\* word is empty; a pass whose only tag is "#" returns the text unchanged
\* with changed = false.
C7_MalformedTagSkipped ==
    Applied
        => /\ \A k \in 1..Len(tags) :
                  tags[k] = <<"#">> => stored.trace[k + 1] = stored.trace[k]
           /\ tags = <<<<"#">>>>
                  => stored.newContent = body /\ stored.changed = FALSE

\* C8: for the tag "#c++", the replace of processFile's loop rewrites every
\* standalone "c++" of the working copy to "#c++" and nothing else, and
\* building the pattern never throws.
C8_MetacharacterSafe ==
    Applied
        => /\ ~stored.threw
           /\ \A k \in 1..Len(tags) :
                  tags[k] = <<"#", "c", "+", "+">>
                      => stored.trace[k + 1] =
                             Tagged(stored.trace[k], <<"c", "+", "+">>,
                                    Standalone(stored.trace[k],
                                               <<"c", "+", "+">>), 1)

\* C9: for a tag whose bare word is made of word characters, the replace
\* of processFile's loop rewrites exactly the occurrences of the word, in
\* any letter case, that stand between non-word characters or the ends of
\* the text and do not follow "#", each to "#" and the lower-case word.
C9_BoundaryAndCase ==
    Applied
        => \A k \in 1..Len(tags) :
               LET word == BareWord(tags[k])
               IN  (word # <<>> /\ \A m \in 1..Len(word) : word[m] \in WordChars)
                       => stored.trace[k + 1] =
                              Tagged(stored.trace[k], word,
                                     Standalone(stored.trace[k], word), 1)

\* The tag "#C" met its word alone, in upper case, and rewrote it to "#c",
\* and met it inside the longer word "cc" and left it.
C9_Witness ==
    /\ Applied
    /\ tags = <<<<"#", "C">>>>
    /\ body = <<"C", "-", "c", "c">>
    /\ stored.trace = <<body, <<"#", "c", "-", "c", "c">>>>

\* ------------------------------------------------- claims on the system
EditorTimers == {i \in 1..Len(timers) : timers[i].kind = "editor"}

\* C4: of a burst of editor-change events, each less than the quiet delay
\* after the one before, only the last one's timer is ever pending; exactly
\* one convertWordsToTags runs for the burst, a full quiet delay after the
\* last event, on the editor and the text of that last event.
C4_DebounceCollapses ==
    /\ since.passes <= 1
    /\ did.op = "convertWordsToTags"
           => /\ did.event.passes = 0
              /\ did.quiet = QuietDelay
              /\ did.target = did.event.editor
              /\ did.input = did.event.text
    /\ (since.editor # "none" /\ since.passes = 0)
           => /\ Cardinality(EditorTimers) = 1
              /\ \A i \in EditorTimers :
                     /\ timers[i].target = since.editor
                     /\ timers[i].id = timeout
                     /\ timers[i].remaining = QuietDelay - elapsed
    /\ (since.editor = "none" \/ since.passes = 1) => EditorTimers = {}

\* A burst of three events on one editor ended with the text "c-c", and the
\* one pass of the burst has rewritten it to "#c-#c".
C4_Witness ==
    /\ did.op = "convertWordsToTags"
    /\ did.event.events = 3
    /\ did.input = <<"c", "-", "c">>
    /\ did.output = <<"#", "c", "-", "#", "c">>
    /\ buffer[did.target] = did.output

CacheTags(files) == UNION {{cache[f][k] : k \in 1..Len(cache[f])} : f \in files}

\* C5: after every updateTags the registry holds every tag of the caches of
\* the markdown files, once each, and no other tag, whatever it held before
\* and however often updateTags ran; the files taken in another order give
\* the same set of tags.
C5_RegistryRebuilt ==
    /\ \A i, j \in 1..Len(tags) : i # j => tags[i] # tags[j]
    /\ {tags[i] : i \in 1..Len(tags)} = CacheTags(Files)
    /\ LET other == UpdateTags(tags, <<"C", "B", "A">>, cache)
       IN  /\ Len(other) = Len(tags)
           /\ {other[i] : i \in 1..Len(other)} = CacheTags(Files)

\* The registry held #c-c, #c; the documents now hold {#c, #cC},
\* {#cC, #c-c} and nothing, and the registry is #c, #cC, #c-c.
C5_Witness ==
    /\ cache["A"] = <<TagC, TagWord>>
    /\ cache["B"] = <<TagWord, TagHyphen>>
    /\ cache["C"] = <<>>
    /\ tags = <<TagC, TagWord, TagHyphen>>

\* The scan has passed every document, in order; each document whose read
\* and write did not fail has been processed, and holds its rewritten text
\* when the pass changed it.
ScanComplete ==
    /\ Len(scanned) = Len(MarkdownFiles)
    /\ \A n \in 1..Len(scanned) :
           LET entry == scanned[n]
               pass  == RewriteStored(entry.content, tags)
           IN  /\ entry.file = MarkdownFiles[n]
               /\ entry.outcome \in {"written", "unchanged", "failed"}
               /\ entry.outcome = "written"
                      => pass.changed /\ content[entry.file] = pass.newContent
               /\ entry.outcome = "unchanged"
                      => ~pass.changed /\ content[entry.file] = entry.content

\* How far the scan is: two steps a document, its read and its write.
ScanPosition ==
    IF calls = <<>> THEN 2 * Len(MarkdownFiles) + 1
    ELSE IF calls[1].at = "read" THEN 2 * calls[1].scan - 1
    ELSE 2 * calls[1].scan

\* C6: a read or a write that fails on one document of a scan is caught in
\* that document's processFile; the scan goes on to every other document,
\* writes those its pass changed, and always reaches its end: while it has
\* not, it awaits a read or a write of a document of the list, and every
\* read or write that settles, resolved or rejected, takes it forward.
C6_BatchIsolation ==
    /\ [](calls = <<>> => ScanComplete)
    /\ [](calls # <<>> => /\ Len(calls) = 1
                          /\ calls[1].at \in {"read", "modify"}
                          /\ calls[1].scan \in 1..Len(MarkdownFiles)
                          /\ calls[1].file = MarkdownFiles[calls[1].scan])
    /\ [][ScanPosition' > ScanPosition]_vars

\* The write of B failed; A and C were rewritten all the same.
C6_Witness ==
    /\ calls = <<>>
    /\ Len(scanned) = 3
    /\ scanned[1] = [file |-> "A", outcome |-> "written", content |-> <<"c">>]
    /\ scanned[2] = [file |-> "B", outcome |-> "failed", content |-> <<"c">>]
    /\ scanned[3].outcome = "written"
    /\ content = [file \in Files |->
                     IF file = "B" THEN <<"c">>
                     ELSE IF file = "A" THEN <<"#", "c">>
                     ELSE <<"#", "c", "-", "#", "c">>]

\* C10: while the registry is empty no event, timer or scan calls
\* vault.modify or editor.setValue, and every pass returns the text it was
\* given, the empty text too, with changed = false.
C10_EmptyRegistryNoOp ==
    tags = <<>>
        => /\ did.effect = "none"
           /\ did.op # "none" => did.output = did.input /\ ~did.changed
           /\ \A i \in 1..Len(calls) : calls[i].at # "modify"

\* With the registry empty, a scan has passed the empty document A and
\* left it, and convertWordsToTags has run on the text "c-c" and left it.
C10_Witness ==
    /\ tags = <<>>
    /\ Len(scanned) = 3
    /\ scanned[1] = [file |-> "A", outcome |-> "unchanged", content |-> <<>>]
    /\ did.op = "convertWordsToTags"
    /\ did.input = <<"c", "-", "c">>
    /\ did.output = <<"c", "-", "c">>

\* The invocations of processFile that the scan awaits.
OfScan == {i \in 1..Len(calls) : calls[i].scan > 0}

Settled == {"written", "unchanged", "failed", "skipped"}

\* C11: a processAllFiles never has two of its documents in flight; when it
\* reads or writes document n, the processFile of every document before n
\* has ended, resolved or with its failure caught, and none after n has
\* started.
C11_ScanSequential ==
    /\ Cardinality(OfScan) <= 1
    /\ \A i \in OfScan :
           /\ Len(calls[i].log) = calls[i].scan - 1
           /\ \A n \in 1..Len(calls[i].log) :
                  /\ calls[i].log[n].file = MarkdownFiles[n]
                  /\ calls[i].log[n].outcome \in Settled
    /\ OfScan = {} => Len(scanned) = Len(MarkdownFiles)

\* The scan awaits the write of B, its second document, with A written;
\* the processFile that A's own modify event scheduled is in flight too.
C11_Witness ==
    \E i, j \in 1..Len(calls) :
        /\ calls[i].scan = 2
        /\ calls[i].at = "modify"
        /\ calls[i].log[1].outcome = "written"
        /\ calls[j].scan = 0
        /\ calls[j].file = "A"

\* C12: processFile called on a document whose extension is not exactly md
\* performs no read and no write: no such document is ever awaited at a
\* read or a write, and no pass runs over one.
C12_OnlyNotes ==
    /\ \A i \in 1..Len(calls) : Extension(calls[i].file) = <<"m", "d">>
    /\ did.op = "processFile" => Extension(did.target) = <<"m", "d">>

\* The text after every tag's replace in turn, each applied to the text the
\* one before left.
RECURSIVE Chained(_, _)
Chained(text, registry) ==
    IF registry = <<>> THEN text
    ELSE Chained(FileStep([newContent |-> text, changed |-> FALSE,
                           threw |-> FALSE, trace |-> <<>>],
                          Head(registry)).newContent,
                 Tail(registry))

\* C13: processFile calls vault.modify if and only if the text its whole
\* loop computed differs from the text it read, with that whole text, at
\* most once; a document changes under the plugin only by such a write, so
\* one whose read failed or that no tag matched is left as it was.
C13_WriteOnlyChanged ==
    /\ [](\A i \in 1..Len(calls) :
             calls[i].at = "modify"
                 => /\ calls[i].newContent = Chained(calls[i].content, tags)
                    /\ calls[i].newContent # calls[i].content)
    /\ [](did.op = "processFile"
             => /\ did.output = Chained(did.input, tags)
                /\ did.effect = "vault.modify" <=> did.output # did.input)
    /\ [][\A f \in DOMAIN content :
             (content'[f] # content[f] /\ calls' # calls)
                 => \E i \in 1..Len(calls) :
                        /\ calls[i].at = "modify"
                        /\ calls[i].file = f
                        /\ content'[f] = calls[i].newContent
                        /\ \A j \in 1..Len(calls') :
                               calls'[j].at = "modify" => calls'[j] \in
                                   {calls[k] : k \in 1..Len(calls) \ {i}}]_vars

\* The scan has written A, whose text the tag matched; B, whose read
\* failed, and C, which no tag matched, are as they were.
C13_Witness ==
    /\ Len(scanned) = 3
    /\ scanned[1] = [file |-> "A", outcome |-> "written", content |-> <<"c">>]
    /\ content["A"] = <<"#", "c">>
    /\ scanned[2] = [file |-> "B", outcome |-> "failed", content |-> <<>>]
    /\ content["B"] = <<"c", "-", "c">>
    /\ scanned[3] = [file |-> "C", outcome |-> "unchanged", content |-> <<>>]
    /\ content["C"] = <<>>

FileTimers(pending) == SelectSeq(pending, LAMBDA t : t.kind = "file")

\* The invocations of processFile that a timer started.
OfTimers(invocations) == SelectSeq(invocations, LAMBDA c : c.scan = 0)

\* C14: every modify event sets its own timer of the settle delay and no
\* step cancels it: in every step the timers of the modify events stay as
\* they are, with at most a new one behind them, or they all age, or one
\* that has waited the settle delay fires and starts one processFile of its
\* document; processFile is started by a timer in no other way.  So k
\* events on a document lead to k invocations for it.
C14_EveryModifyFires ==
    [][LET old == FileTimers(timers)
           new == FileTimers(timers')
       IN  /\ \/ /\ Len(new) \in {Len(old), Len(old) + 1}
                 /\ SubSeq(new, 1, Len(old)) = old
                 /\ Len(new) > Len(old)
                        => /\ new[Len(new)].remaining = 1000
                           /\ new[Len(new)].waited = 0
                 /\ Len(OfTimers(calls')) <= Len(OfTimers(calls))
              \/ /\ Len(new) = Len(old)
                 /\ \A i \in 1..Len(old) :
                        /\ new[i].target = old[i].target
                        /\ new[i].waited > old[i].waited
                        /\ new[i].remaining + new[i].waited >= 1000
                 /\ calls' = calls
              \/ \E i \in 1..Len(old) :
                     /\ old[i].remaining = 0
                     /\ old[i].waited >= 1000
                     /\ new = Remove(old, i)
                     /\ Len(calls') = Len(calls) + 1
                     /\ SubSeq(calls', 1, Len(calls)) = calls
                     /\ calls'[Len(calls')].file = old[i].target
                     /\ calls'[Len(calls')].at = "read"
                     /\ calls'[Len(calls')].scan = 0
           /\ \A f \in DOMAIN content :
                  content'[f] # content[f]
                      => /\ Len(new) = Len(old) + 1
                         /\ new[Len(new)].target = f]_vars

\* Two modify events from outside on B, and two invocations of processFile
\* for B in flight, one for each.
C14_Witness ==
    \E i, j \in 1..Len(calls) :
        /\ i < j
        /\ calls[i].scan = 0 /\ calls[i].file = "B" /\ calls[i].hops = 0
        /\ calls[j].scan = 0 /\ calls[j].file = "B" /\ calls[j].hops = 0

\* The text the last replace that changed anything gave, every tag's
\* replace being applied to the same text.
RECURSIVE LastChanged(_, _, _)
LastChanged(text, registry, value) ==
    IF registry = <<>> THEN value
    ELSE LET word     == BareWord(Head(registry))
             replaced == Replace(text, NewRegExp(EscapeRegExp(word)).terms,
                                 <<"#">> \o word)
         IN  LastChanged(text, Tail(registry),
                         IF replaced # text THEN replaced ELSE value)

\* C15: a pass applies every tag of one registry: the step that runs a pass
\* leaves the registry as it is, and what the pass gives is what the tags
\* of that registry give, all of them, in order, also when the registry
\* was refreshed while the read of the document was suspended.
C15_OneRegistryPerPass ==
    [][/\ did'.op # "none" => tags' = tags
       /\ did'.op = "processFile"
              => did'.output = Chained(did'.input, tags)
       /\ did'.op = "convertWordsToTags"
              => did'.output = LastChanged(did'.input, tags, did'.input)]_vars

\* The registry was #c when the scan began to read A; it was refreshed to
\* #c-c, #c while the read was suspended, and the pass over A applied both
\* of these tags.
C15_Witness ==
    /\ did.op = "processFile"
    /\ did.target = "A"
    /\ tags = <<TagHyphen, TagC>>
    /\ did.input = <<"c", "-", "c">>
    /\ did.output = <<"#", "c", "-", "#", "c">>

\* C16: a timer that fires for a deleted document or a closed editor acts
\* on nothing: the step starts no processFile (so no read and no write),
\* runs no convertWordsToTags (so no getValue and no setValue), and lets no
\* error out.
C16_ChecksTargetAtFire ==
    [][\A i \in 1..Len(timers) :
           (/\ timers[i].remaining = 0
            /\ timers[i].target \in gone
            /\ Len(timers') < Len(timers) \/ did'.op # "none"
            /\ gone' = gone
            /\ \A j \in 1..Len(timers) \ {i} : timers[j].remaining > 0)
               => /\ calls' = calls
                  /\ did'.op = "none"]_vars

\* C17: an editor-change event on one editor never cancels the pending
\* timer of another: a timer of an editor that is not yet due is followed,
\* in every step, by a pending timer of the same editor.
C17_IndependentDebounce ==
    [][\A i \in EditorTimers :
           timers[i].remaining > 0
               => \E j \in 1..Len(timers') :
                      /\ timers'[j].kind = "editor"
                      /\ timers'[j].target = timers[i].target]_vars

\* C18: the text processFile writes to a document is the rewrite of the
\* text the document holds at the moment of the write: a text stored
\* between processFile's read and its write is not overwritten with the
\* rewrite of the older text.
C18_NoLostUpdate ==
    [][\A i \in 1..Len(calls) :
           (/\ calls[i].at = "modify"
            /\ calls' # calls
            /\ content'[calls[i].file] # content[calls[i].file])
               => content'[calls[i].file] =
                      Chained(content[calls[i].file], tags)]_vars

\* The characters of a text a rewrite can still put a '#' in front of:
\* those that are no '#' and do not follow one.
Potential(text) ==
    Cardinality({i \in 1..Len(text) :
                    text[i] # "#" /\ (i = 1 \/ text[i - 1] # "#")})

\* The steps a timer set with the settle delay takes to fall due.
MaxTicks == (SettleDelay + Tick - 1) \div Tick

\* How far a timer is from its end: the clock steps until it fires, the
\* fire and the read, for every '#' its target can still get.
TimerDistance(t) ==
    (MaxTicks + 3)
        * Potential(IF t.kind = "file" THEN content[t.target]
                                       ELSE buffer[t.target])
    + 2 + (t.remaining + Tick - 1) \div Tick

\* How far a processFile is from its end: one waiting for its read is as
\* far as the text of its document, one waiting for its write as far as
\* the text it writes and the timer the write sets.
CallDistance(c) ==
    IF c.at = "read" THEN (MaxTicks + 3) * Potential(content[c.file]) + 1
                     ELSE (MaxTicks + 3) * Potential(c.newContent)
                              + MaxTicks + 3

Distances ==
    {TimerDistance(timers[i]) : i \in 1..Len(timers)}
        \cup {CallDistance(calls[i]) : i \in 1..Len(calls)}

\* The timers and the calls that are d from their end.
CountAt(d) ==
    Cardinality({i \in 1..Len(timers) : TimerDistance(timers[i]) = d})
        + Cardinality({i \in 1..Len(calls) : CallDistance(calls[i]) = d})

\* The step took a timer or a call from the farthest distance at which it
\* changed anything, or it changed none and the metadata cache caught up
\* with a document.
Progress ==
    LET all == Distances \cup Distances'
    IN  \/ \E d \in Distances :
               /\ CountAt(d)' < CountAt(d)
               /\ \A e \in all : e > d => CountAt(e)' = CountAt(e)
        \/ /\ \A e \in all : CountAt(e)' = CountAt(e)
           /\ Cardinality(unparsed') < Cardinality(unparsed)

\* C19: with no event from outside, the plugin comes to rest.  Every step
\* that changes a timer, a processFile, a text or the registry brings the
\* timers and calls nearer their end in a well-founded order (the multiset
\* order on their distances, then the documents the cache has yet to
\* parse), so only finitely many such steps follow one another; and the
\* only such steps left are those of a pending timer, call or parse.
C19_Quiescence ==
    [][Progress]_<<timers, calls, content, buffer, tags, cache, unparsed>>

====
